---- MODULE Spec2Model ----
(***************************************************************************)
(* Model of the network IP route access layer (package interfaces:         *)
(* GetIPRoute, CreateIPRoute, DeleteIPRoute), of the resource that binds   *)
(* it to Terraform (IPRouteResource.Read/Create/Delete) and of the volume  *)
(* snapshot data source's Read.  One handler runs per behaviour; every     *)
(* call to an external collaborator is one step.                           *)
(***************************************************************************)
EXTENDS Integers, Sequences, FiniteSets, TLC

VARIABLES
    op,         \* the binding-layer handler that is running, or "idle"
    pc,         \* the position inside the handler / interface function
    data,       \* the handler's model (`data`), read from state, plan or config
    tfstate,    \* resp.State: <<>> when empty, <<model>> when set
    stateSets,  \* number of resp.State.Set calls made by the handler
    diags,      \* resp.Diagnostics: summaries of the error diagnostics, in order
    requests,   \* requests handed to the REST transport, in order
    matched,    \* the records the server matched / returned for the last request
    version,    \* cluster.Version as fetched by GetCluster
    args,       \* the arguments of the interface function being called
    query,      \* the interface function's query (key -> value)
    fields,     \* the field projection set on the query
    response,   \* the transport's response
    err,        \* the interface function's local err
    ret,        \* what the interface function returned: [rec, err]
    log         \* the steps the interface function has run, in order

vars == <<op, pc, data, tfstate, stateSets, diags, requests, matched, version,
          args, query, fields, response, err, ret, log>>

(***************************************************************************)
(* Bounds of the model.                                                    *)
(***************************************************************************)
MaxRecords == 2        \* most records a transport response carries
GenSpread == 1         \* generations explored on each side of 9
MajorSpread == 2       \* majors explored on each side of 10
MaxMinor == 1          \* minors explored: 0..MaxMinor

(***************************************************************************)
(* Program constants.                                                      *)
(***************************************************************************)
GatedGeneration == 9
GatedMajor == 10

Generations == (GatedGeneration - GenSpread)..(GatedGeneration + GenSpread)
Majors == (GatedMajor - MajorSpread)..(GatedMajor + MajorSpread)
Minors == 0..MaxMinor
Versions == [Generation : Generations, Major : Majors, Minor : Minors]
NoVersion == [Generation |-> 0, Major |-> 0, Minor |-> 0]

(***************************************************************************)
(* Go values.  A nil pointer / nil map is <<>>, a non-nil one is <<v>>.    *)
(* A nil error is NilErr, any other string is an error's text.             *)
(***************************************************************************)
Nil == <<>>
Some(v) == <<v>>
NilErr == "nil"

\* types.String and types.Int64 of the plugin framework: a null flag and a
\* value; ValueString()/ValueInt64() of a null is the zero value.
TfNullString == [null |-> TRUE, v |-> ""]
TfString(s) == [null |-> FALSE, v |-> s]
TfNullInt == [null |-> TRUE, v |-> 0]
TfInt(n) == [null |-> FALSE, v |-> n]

(***************************************************************************)
(* Raw records as the transport returns them (map[string]interface{}):     *)
(* every key is absent or holds a string, a number or a nested object.     *)
(***************************************************************************)
Absent == [t |-> "absent", s |-> "", n |-> 0, m |-> ""]
Str(x) == [t |-> "str", s |-> x, n |-> 0, m |-> ""]
Num(k) == [t |-> "num", s |-> "", n |-> k, m |-> ""]
DestObj(a, mask) == [t |-> "obj", s |-> a, n |-> 0, m |-> mask]
NameObj(a) == [t |-> "obj", s |-> a, n |-> 0, m |-> ""]

RawRecords ==
    { [uuid |-> Str("u1"), gateway |-> Str("g1"), metric |-> Num(5),
       destination |-> DestObj("10.0.0.0", "24"), svm |-> NameObj("svm1")],
      [uuid |-> Str("u2"), gateway |-> Str("g2"), metric |-> Absent,
       destination |-> DestObj("0.0.0.0", "0"), svm |-> Absent],
      [uuid |-> Str("u1"), gateway |-> Str("g1"), metric |-> Str("x"),
       destination |-> DestObj("10.0.0.0", "24"), svm |-> NameObj("svm1")],
      [uuid |-> Num(7), gateway |-> Str("g1"), metric |-> Num(5),
       destination |-> DestObj("10.0.0.0", "24"), svm |-> Absent],
      [uuid |-> Str("u2"), gateway |-> Absent, metric |-> Num(5),
       destination |-> Str("10.0.0.0/24"), svm |-> Absent],
      [uuid |-> Absent, gateway |-> Absent, metric |-> Absent,
       destination |-> Absent, svm |-> Absent] }

RecordLists == UNION { [1..n -> RawRecords] : n \in 0..MaxRecords }

(***************************************************************************)
(* mapstructure.Decode of a raw record into IPRouteGetDataModelONTAP.      *)
(* A key that is absent leaves the zero value; a string field takes only a *)
(* string, an int64 field only a number, a struct field only an object.    *)
(* Fields that decode are written even when another field fails.           *)
(***************************************************************************)
StrOk(x) == x.t \in {"absent", "str"}
IntOk(x) == x.t \in {"absent", "num"}
ObjOk(x) == x.t \in {"absent", "obj"}

DecodedFields(raw) ==
    [ Destination |-> IF raw.destination.t = "obj"
                      THEN [Address |-> raw.destination.s, Netmask |-> raw.destination.m]
                      ELSE [Address |-> "", Netmask |-> ""],
      UUID |-> IF raw.uuid.t = "str" THEN raw.uuid.s ELSE "",
      Gateway |-> IF raw.gateway.t = "str" THEN raw.gateway.s ELSE "",
      Metric |-> IF raw.metric.t = "num" THEN raw.metric.n ELSE 0,
      SVMName |-> [Name |-> IF raw.svm.t = "obj" THEN raw.svm.s ELSE ""] ]

DecodeOk(raw) ==
    /\ ObjOk(raw.destination)
    /\ StrOk(raw.uuid)
    /\ StrOk(raw.gateway)
    /\ IntOk(raw.metric)
    /\ ObjOk(raw.svm)

Decode(raw) ==
    [ err |-> IF DecodeOk(raw) THEN NilErr ELSE "decode error",
      out |-> DecodedFields(raw) ]

ZeroRecord ==
    [ Destination |-> [Address |-> "", Netmask |-> ""], UUID |-> "",
      Gateway |-> "", Metric |-> 0, SVMName |-> [Name |-> ""] ]

(***************************************************************************)
(* The REST transport, as the access layer sees it.                        *)
(***************************************************************************)
\* query.Set replaces the key's values, query.Add appends one.
NewQuery == [k \in {} |-> <<>>]
QuerySet(q, k, v) == [x \in DOMAIN q \cup {k} |-> IF x = k THEN <<v>> ELSE q[x]]
QueryAdd(q, k, v) ==
    [x \in DOMAIN q \cup {k} |->
        IF x = k THEN (IF k \in DOMAIN q THEN Append(q[k], v) ELSE <<v>>) ELSE q[x]]

\* The zero-or-one read: no record is (nil, nil), one record is that record,
\* more than one is an error; a failed call is an error.
GetNilOrOneRecord(records, fails) ==
    IF fails THEN [response |-> Nil, err |-> "transport error"]
    ELSE IF Len(records) = 0 THEN [response |-> Nil, err |-> NilErr]
    ELSE IF Len(records) = 1 THEN [response |-> Some(records[1]), err |-> NilErr]
    ELSE [response |-> Nil, err |-> "more than one record"]

\* The create call: the record list the server echoes, or an error.
CallCreateMethod(records, fails) ==
    IF fails THEN [Records |-> <<>>, err |-> "transport error"]
    ELSE [Records |-> records, err |-> NilErr]

\* The delete call.
CallDeleteMethod(fails) == IF fails THEN "transport error" ELSE NilErr

\* errorHandler.MakeAndReportError: one error diagnostic, and the error.
MakeAndReportError(ds, summary) == [diags |-> Append(ds, summary), err |-> summary]

\* A request as handed to the transport; afterErrors is the number of error
\* diagnostics the handler had already recorded when it was issued.
Request(by, method, api, q, f, b) ==
    [by |-> by, method |-> method, api |-> api, query |-> q, fields |-> f,
     body |-> b, afterErrors |-> Len(diags)]

RoutesAPI == "/network/ip/routes"

(***************************************************************************)
(* GetIPRoute                                                              *)
(***************************************************************************)
\* A query that forgets the scope filter when a virtual server is given.
IPRouteQuery_NoSvmScope(Destination, svmName) ==
    LET q0 == QuerySet(NewQuery, "destination.address", Destination)
    IN  IF svmName = ""
        THEN QuerySet(q0, "scope", "cluster")
        ELSE QuerySet(q0, "svm.name", svmName)

\* The filters of the query.
IPRouteQuery(Destination, svmName) ==
    LET q0 == QuerySet(NewQuery, "destination.address", Destination)
    IN  IF svmName = ""
        THEN QuerySet(q0, "scope", "cluster")
        ELSE QuerySet(QuerySet(q0, "svm.name", svmName), "scope", "svm")

\* A gate that opens one major too early.
IPRouteFields_MajorAtLeast(v) ==
    LET base == <<"destination", "svm.name", "gateway", "scope">>
    IN  IF v.Generation = GatedGeneration /\ v.Major >= GatedMajor
        THEN Append(base, "metric")
        ELSE base

\* The field projection for a cluster version.
IPRouteFields(v) ==
    LET base == <<"destination", "svm.name", "gateway", "scope">>
    IN  IF v.Generation = GatedGeneration /\ v.Major > GatedMajor
        THEN Append(base, "metric")
        ELSE base

\* A check that tests only for the missing response and lets a transport
\* error fall through to decoding.
GetIPRouteCheck_DropsError(resp, e) ==
    IF e = NilErr /\ resp = Nil
    THEN [return |-> TRUE, report |-> TRUE, rec |-> Nil,
          summary |-> "error reading /network/ip/routes info"]
    ELSE [return |-> FALSE, report |-> FALSE, rec |-> Nil, summary |-> NilErr]

\* A check that returns absence as (nil, nil) instead of making it an error.
GetIPRouteCheck_AbsentIsNil(resp, e) ==
    IF e # NilErr
    THEN [return |-> TRUE, report |-> TRUE, rec |-> Nil,
          summary |-> "error reading /network/ip/routes info"]
    ELSE IF resp = Nil
    THEN [return |-> TRUE, report |-> FALSE, rec |-> Nil, summary |-> NilErr]
    ELSE [return |-> FALSE, report |-> FALSE, rec |-> Nil, summary |-> NilErr]

\* What follows the transport call: a nil response without an error is made
\* an error, and any error is reported and returned with a nil record.
GetIPRouteCheck(resp, e) ==
    LET e2 == IF e = NilErr /\ resp = Nil THEN "no response for GET" ELSE e
    IN  IF e2 # NilErr
        THEN [return |-> TRUE, report |-> TRUE, rec |-> Nil,
              summary |-> "error reading /network/ip/routes info"]
        ELSE [return |-> FALSE, report |-> FALSE, rec |-> Nil, summary |-> NilErr]

\* mapstructure.Decode of the response (a nil map decodes to the zero record).
DecodeResponse(resp) ==
    IF resp = Nil THEN [err |-> NilErr, out |-> ZeroRecord] ELSE Decode(resp[1])

\* A return that hands out the partly decoded record with the error.
DecodeResult_Partial(d) == Some(d.out)

\* The record GetIPRoute / CreateIPRoute return after decoding.
DecodeResult(d) == IF d.err # NilErr THEN Nil ELSE Some(d.out)

GetIPRoute_Query ==
    /\ pc = "GetIPRoute:query"
    /\ query' = IPRouteQuery(args.Destination, args.svmName)
    /\ log' = Append(log, "query")
    /\ pc' = "GetIPRoute:fields"
    /\ UNCHANGED <<op, data, tfstate, stateSets, diags, requests, matched,
                   version, args, fields, response, err, ret>>

GetIPRoute_Fields ==
    /\ pc = "GetIPRoute:fields"
    /\ fields' = IPRouteFields(args.version)
    /\ log' = Append(log, "fields")
    /\ pc' = "GetIPRoute:call"
    /\ UNCHANGED <<op, data, tfstate, stateSets, diags, requests, matched,
                   version, args, query, response, err, ret>>

GetIPRoute_Call ==
    /\ pc = "GetIPRoute:call"
    /\ \E recs \in RecordLists, fails \in BOOLEAN :
        /\ fails => recs = <<>>
        /\ matched' = recs
        /\ requests' = Append(requests,
                Request("GetIPRoute", "GET", <<RoutesAPI>>, query, fields, Nil))
        /\ response' = GetNilOrOneRecord(recs, fails).response
        /\ err' = GetNilOrOneRecord(recs, fails).err
    /\ log' = Append(log, "request")
    /\ pc' = "GetIPRoute:check"
    /\ UNCHANGED <<op, data, tfstate, stateSets, diags, version, args, query,
                   fields, ret>>

GetIPRoute_Check ==
    /\ pc = "GetIPRoute:check"
    /\ LET c == GetIPRouteCheck(response, err)
       IN  IF c.return
           THEN /\ diags' = IF c.report
                            THEN MakeAndReportError(diags, c.summary).diags
                            ELSE diags
                /\ ret' = [rec |-> c.rec, err |-> c.summary]
                /\ pc' = "Read:afterGetIPRoute"
           ELSE /\ pc' = "GetIPRoute:decode"
                /\ UNCHANGED <<diags, ret>>
    /\ UNCHANGED <<op, data, tfstate, stateSets, requests, matched, version,
                   args, query, fields, response, err, log>>

GetIPRoute_Decode ==
    /\ pc = "GetIPRoute:decode"
    /\ LET d == DecodeResponse(response)
       IN  /\ diags' = IF d.err # NilErr
                       THEN MakeAndReportError(diags,
                                "failed to decode response from GET").diags
                       ELSE diags
           /\ ret' = [rec |-> DecodeResult(d),
                      err |-> IF d.err # NilErr
                              THEN "failed to decode response from GET"
                              ELSE NilErr]
    /\ log' = Append(log, "decode")
    /\ pc' = "Read:afterGetIPRoute"
    /\ UNCHANGED <<op, data, tfstate, stateSets, requests, matched, version,
                   args, query, fields, response, err>>

(***************************************************************************)
(* CreateIPRoute                                                           *)
(***************************************************************************)
\* mapstructure.Decode of the body struct into a map: the map mirrors the
\* struct, or the encoding fails.
CreateIPRoute_Encode ==
    /\ pc = "CreateIPRoute:encode"
    /\ \E ok \in BOOLEAN :
        IF ok
        THEN /\ pc' = "CreateIPRoute:query"
             /\ UNCHANGED <<diags, ret>>
        ELSE /\ diags' = MakeAndReportError(diags,
                            "error encoding /network/ip/routes body").diags
             /\ ret' = [rec |-> Nil, err |-> "error encoding /network/ip/routes body"]
             /\ pc' = "Create:afterCreateIPRoute"
    /\ log' = Append(log, "encode")
    /\ UNCHANGED <<op, data, tfstate, stateSets, requests, matched, version,
                   args, query, fields, response, err>>

CreateIPRoute_Query ==
    /\ pc = "CreateIPRoute:query"
    /\ query' = QueryAdd(NewQuery, "return_records", "true")
    /\ log' = Append(log, "query")
    /\ pc' = "CreateIPRoute:call"
    /\ UNCHANGED <<op, data, tfstate, stateSets, diags, requests, matched,
                   version, args, fields, response, err, ret>>

CreateIPRoute_Call ==
    /\ pc = "CreateIPRoute:call"
    /\ \E recs \in RecordLists, fails \in BOOLEAN :
        /\ fails => recs = <<>>
        /\ matched' = recs
        /\ requests' = Append(requests,
                Request("CreateIPRoute", "POST", <<RoutesAPI>>, query, <<>>, Some(args.body)))
        /\ response' = CallCreateMethod(recs, fails).Records
        /\ err' = CallCreateMethod(recs, fails).err
        /\ IF CallCreateMethod(recs, fails).err # NilErr
           THEN /\ diags' = MakeAndReportError(diags,
                                "error creating /network/ip/routes").diags
                /\ ret' = [rec |-> Nil, err |-> "error creating /network/ip/routes"]
                /\ pc' = "Create:afterCreateIPRoute"
           ELSE /\ pc' = "CreateIPRoute:decode"
                /\ UNCHANGED <<diags, ret>>
    /\ log' = Append(log, "request")
    /\ UNCHANGED <<op, data, tfstate, stateSets, version, args, query, fields>>

\* A create that decodes the last record of the list instead of the first.
CreatedRecord_Last(records) == records[Len(records)]

\* The element of the record list that CreateIPRoute decodes: Records[0].
CreatedRecord(records) == records[1]

\* response.Records[0] of an empty list is an index out of range: the
\* goroutine panics.
CreateIPRoute_Decode ==
    /\ pc = "CreateIPRoute:decode"
    /\ IF response = <<>>
       THEN /\ pc' = "panic"
            /\ UNCHANGED <<diags, ret>>
       ELSE LET d == Decode(CreatedRecord(response))
            IN  /\ diags' = IF d.err # NilErr
                            THEN MakeAndReportError(diags,
                                    "error decoding /network/ip/routes info").diags
                            ELSE diags
                /\ ret' = [rec |-> DecodeResult(d),
                           err |-> IF d.err # NilErr
                                   THEN "error decoding /network/ip/routes info"
                                   ELSE NilErr]
                /\ pc' = "Create:afterCreateIPRoute"
    /\ log' = Append(log, "decode")
    /\ UNCHANGED <<op, data, tfstate, stateSets, requests, matched, version,
                   args, query, fields, response, err>>

(***************************************************************************)
(* DeleteIPRoute                                                           *)
(***************************************************************************)
DeleteIPRoute_Call ==
    /\ pc = "DeleteIPRoute:call"
    /\ \E fails \in BOOLEAN :
        /\ requests' = Append(requests,
                Request("DeleteIPRoute", "DELETE", <<RoutesAPI, args.uuid>>, NewQuery, <<>>, Nil))
        /\ err' = CallDeleteMethod(fails)
        /\ IF CallDeleteMethod(fails) # NilErr
           THEN /\ diags' = MakeAndReportError(diags,
                                "error deleting /network/ip/routes").diags
                /\ ret' = [rec |-> Nil, err |-> "error deleting /network/ip/routes"]
           ELSE /\ ret' = [rec |-> Nil, err |-> NilErr]
                /\ UNCHANGED diags
    /\ log' = Append(log, "request")
    /\ pc' = "Delete:afterDeleteIPRoute"
    /\ UNCHANGED <<op, data, tfstate, stateSets, matched, version, args, query,
                   fields, response>>

(***************************************************************************)
(* The binding layer.  The framework hands each handler its prior state,   *)
(* plan or configuration; reading it may fail with an error diagnostic.    *)
(***************************************************************************)
\* IPRouteResourceModel values found in the prior state.
PriorStates ==
    [ CxProfileName : {TfString("cx")},
      SVMName : {TfNullString, TfString("svm1")},
      Address : {TfString("10.0.0.0"), TfString("0.0.0.0")},
      Netmask : {TfString("24")},
      Gateway : {TfString("g1")},
      Metric : {TfInt(5)},
      UUID : {TfNullString, TfString(""), TfString("u1")} ]

\* IPRouteResourceModel values found in a plan (uuid is computed).
Plans ==
    [ CxProfileName : {TfString("cx")},
      SVMName : {TfNullString, TfString("svm1")},
      Address : {TfString("10.0.0.0"), TfString("0.0.0.0")},
      Netmask : {TfString("24")},
      Gateway : {TfNullString, TfString("g1")},
      Metric : {TfNullInt, TfInt(5)},
      UUID : {TfNullString} ]

NoData == [CxProfileName |-> TfNullString]

\* getRestClient reports its own error when it fails.
ClientError == "error getting REST client"

\* interfaces.GetCluster: one GET of the cluster, and its own error report.
ClusterError == "error reading cluster info"

IsDone == pc \in {"done", "panic"}

(***************************************************************************)
(* IPRouteResource.Read                                                    *)
(***************************************************************************)
BeginRead ==
    /\ op = "idle"
    /\ op' = "Read"
    /\ pc' = "Read:State.Get"
    /\ \E prior \in PriorStates : tfstate' = Some(prior)
    /\ UNCHANGED <<data, stateSets, diags, requests, matched, version, args,
                   query, fields, response, err, ret, log>>

Read_StateGet ==
    /\ pc = "Read:State.Get"
    /\ \E ok \in BOOLEAN :
        IF ok
        THEN /\ data' = tfstate[1]
             /\ pc' = "Read:getRestClient"
             /\ UNCHANGED diags
        ELSE /\ diags' = Append(diags, "state read error")
             /\ pc' = "done"
             /\ UNCHANGED data
    /\ log' = Append(log, "State.Get")
    /\ UNCHANGED <<op, tfstate, stateSets, requests, matched, version, args,
                   query, fields, response, err, ret>>

Read_getRestClient ==
    /\ pc = "Read:getRestClient"
    /\ \E ok \in BOOLEAN :
        IF ok
        THEN /\ pc' = "Read:GetCluster"
             /\ UNCHANGED diags
        ELSE /\ diags' = MakeAndReportError(diags, ClientError).diags
             /\ pc' = "done"
    /\ log' = Append(log, "getRestClient")
    /\ UNCHANGED <<op, data, tfstate, stateSets, requests, matched, version,
                   args, query, fields, response, err, ret>>

\* GetCluster, and on success the call of GetIPRoute with the model's
\* destination address, svm name and the cluster's version.
Read_GetCluster ==
    /\ pc = "Read:GetCluster"
    /\ requests' = Append(requests,
            Request("GetCluster", "GET", <<"/cluster">>, NewQuery, <<>>, Nil))
    /\ \E ok \in BOOLEAN, v \in Versions :
        IF ok
        THEN /\ version' = v
             /\ args' = [Destination |-> data.Address.v,
                         svmName |-> data.SVMName.v, version |-> v]
             /\ pc' = "GetIPRoute:query"
             /\ UNCHANGED diags
        ELSE /\ diags' = MakeAndReportError(diags, ClusterError).diags
             /\ pc' = "done"
             /\ UNCHANGED <<version, args>>
    /\ log' = Append(log, "GetCluster")
    /\ UNCHANGED <<op, data, tfstate, stateSets, matched, query, fields,
                   response, err, ret>>

\* The model after the fields of restInfo are copied into it.
ReadModel(d, restInfo) ==
    [d EXCEPT !.Address = TfString(restInfo.Destination.Address),
              !.Netmask = TfString(restInfo.Destination.Netmask),
              !.Gateway = TfString(restInfo.Gateway),
              !.Metric = TfInt(restInfo.Metric),
              !.SVMName = TfString(restInfo.SVMName.Name)]

\* After GetIPRoute returned: stop on an error; otherwise read restInfo's
\* fields (a nil restInfo is a nil pointer dereference) and set the state.
Read_AfterGetIPRoute ==
    /\ pc = "Read:afterGetIPRoute"
    /\ IF ret.err # NilErr
       THEN /\ pc' = "done"
            /\ UNCHANGED <<data, tfstate, stateSets>>
       ELSE IF ret.rec = Nil
       THEN /\ pc' = "panic"
            /\ UNCHANGED <<data, tfstate, stateSets>>
       ELSE /\ data' = ReadModel(data, ret.rec[1])
            /\ tfstate' = Some(ReadModel(data, ret.rec[1]))
            /\ stateSets' = stateSets + 1
            /\ pc' = "done"
    /\ UNCHANGED <<op, diags, requests, matched, version, args, query, fields,
                   response, err, ret, log>>

(***************************************************************************)
(* IPRouteResource.Create                                                  *)
(***************************************************************************)
BeginCreate ==
    /\ op = "idle"
    /\ op' = "Create"
    /\ pc' = "Create:Plan.Get"
    /\ UNCHANGED <<data, tfstate, stateSets, diags, requests, matched, version,
                   args, query, fields, response, err, ret, log>>

Create_PlanGet ==
    /\ pc = "Create:Plan.Get"
    /\ \E ok \in BOOLEAN, plan \in Plans :
        IF ok
        THEN /\ data' = plan
             /\ pc' = "Create:getRestClient"
             /\ UNCHANGED diags
        ELSE /\ diags' = Append(diags, "plan read error")
             /\ pc' = "done"
             /\ UNCHANGED data
    /\ log' = Append(log, "Plan.Get")
    /\ UNCHANGED <<op, tfstate, stateSets, requests, matched, version, args,
                   query, fields, response, err, ret>>

\* The request body built from the plan: a null attribute leaves the zero
\* value in the body.
IPRouteBody(d) ==
    [ Destination |-> [Address |-> d.Address.v, Netmask |-> d.Netmask.v],
      SVM |-> [Name |-> IF ~d.SVMName.null THEN d.SVMName.v ELSE ""],
      Gateway |-> IF ~d.Gateway.null THEN d.Gateway.v ELSE "",
      Metric |-> IF ~d.Metric.null THEN d.Metric.v ELSE 0 ]

\* The body is built, the client fetched and, on success, CreateIPRoute called.
Create_getRestClient ==
    /\ pc = "Create:getRestClient"
    /\ \E ok \in BOOLEAN :
        IF ok
        THEN /\ args' = [body |-> IPRouteBody(data)]
             /\ pc' = "CreateIPRoute:encode"
             /\ UNCHANGED diags
        ELSE /\ diags' = MakeAndReportError(diags, ClientError).diags
             /\ pc' = "done"
             /\ UNCHANGED args
    /\ log' = Append(log, "getRestClient")
    /\ UNCHANGED <<op, data, tfstate, stateSets, requests, matched, version,
                   query, fields, response, err, ret>>

\* The model after the created record's UUID is stored in it.
CreateModel(d, resource) == [d EXCEPT !.UUID = TfString(resource.UUID)]

Create_AfterCreateIPRoute ==
    /\ pc = "Create:afterCreateIPRoute"
    /\ IF ret.err # NilErr
       THEN /\ pc' = "done"
            /\ UNCHANGED <<data, tfstate, stateSets>>
       ELSE IF ret.rec = Nil
       THEN /\ pc' = "panic"
            /\ UNCHANGED <<data, tfstate, stateSets>>
       ELSE /\ data' = CreateModel(data, ret.rec[1])
            /\ tfstate' = Some(CreateModel(data, ret.rec[1]))
            /\ stateSets' = stateSets + 1
            /\ pc' = "done"
    /\ UNCHANGED <<op, diags, requests, matched, version, args, query, fields,
                   response, err, ret, log>>

(***************************************************************************)
(* IPRouteResource.Delete                                                  *)
(***************************************************************************)
BeginDelete ==
    /\ op = "idle"
    /\ op' = "Delete"
    /\ pc' = "Delete:State.Get"
    /\ \E prior \in PriorStates : tfstate' = Some(prior)
    /\ UNCHANGED <<data, stateSets, diags, requests, matched, version, args,
                   query, fields, response, err, ret, log>>

Delete_StateGet ==
    /\ pc = "Delete:State.Get"
    /\ \E ok \in BOOLEAN :
        IF ok
        THEN /\ data' = tfstate[1]
             /\ pc' = "Delete:getRestClient"
             /\ UNCHANGED diags
        ELSE /\ diags' = Append(diags, "state read error")
             /\ pc' = "done"
             /\ UNCHANGED data
    /\ log' = Append(log, "State.Get")
    /\ UNCHANGED <<op, tfstate, stateSets, requests, matched, version, args,
                   query, fields, response, err, ret>>

Delete_getRestClient ==
    /\ pc = "Delete:getRestClient"
    /\ \E ok \in BOOLEAN :
        IF ok
        THEN /\ pc' = "Delete:checkUUID"
             /\ UNCHANGED diags
        ELSE /\ diags' = MakeAndReportError(diags, ClientError).diags
             /\ pc' = "done"
    /\ log' = Append(log, "getRestClient")
    /\ UNCHANGED <<op, data, tfstate, stateSets, requests, matched, version,
                   args, query, fields, response, err, ret>>

\* A Delete that calls DeleteIPRoute without checking the identifier.
Delete_CheckUUID_Unchecked ==
    /\ pc = "Delete:checkUUID"
    /\ args' = [uuid |-> data.UUID.v]
    /\ pc' = "DeleteIPRoute:call"
    /\ log' = Append(log, "checkUUID")
    /\ UNCHANGED <<op, data, tfstate, stateSets, diags, requests, matched,
                   version, query, fields, response, err, ret>>

\* The identifier check: a null UUID is reported and the handler returns;
\* otherwise DeleteIPRoute is called with the UUID.
Delete_CheckUUID ==
    /\ pc = "Delete:checkUUID"
    /\ IF data.UUID.null
       THEN /\ diags' = MakeAndReportError(diags, "UUID is null").diags
            /\ pc' = "done"
            /\ UNCHANGED args
       ELSE /\ args' = [uuid |-> data.UUID.v]
            /\ pc' = "DeleteIPRoute:call"
            /\ UNCHANGED diags
    /\ log' = Append(log, "checkUUID")
    /\ UNCHANGED <<op, data, tfstate, stateSets, requests, matched, version,
                   query, fields, response, err, ret>>

Delete_AfterDeleteIPRoute ==
    /\ pc = "Delete:afterDeleteIPRoute"
    /\ pc' = "done"
    /\ UNCHANGED <<op, data, tfstate, stateSets, diags, requests, matched,
                   version, args, query, fields, response, err, ret, log>>

(***************************************************************************)
(* StorageVolumeSnapshotDataSource.Read                                    *)
(***************************************************************************)
\* StorageVolumeSnapshotDataSourceModel values found in the configuration.
SnapshotConfigs ==
    [ CxProfileName : {TfString("cx")},
      Name : {TfNullString, TfString("snap1")},
      VolumeUUID : {TfNullString, TfString("vol1")},
      Comment : {TfNullString} ]

\* Snapshot records GetStorageVolumeSnapshots can return.
Snapshots ==
    [ Name : {"snap1"}, Comment : {"", "nightly"}, VolumeUUID : {"vol1", "vol2"} ]

SnapshotLists == UNION { [1..n -> Snapshots] : n \in 0..MaxRecords }

\* interfaces.GetStorageVolumeSnapshots: a zero-or-one read that returns the
\* record, absence (nil, nil), or an error it has reported.
GetStorageVolumeSnapshots(records, fails) ==
    LET r == GetNilOrOneRecord(records, fails)
    IN  IF r.err # NilErr
        THEN [rec |-> Nil, err |-> "error reading snapshot info", report |-> TRUE]
        ELSE [rec |-> r.response, err |-> NilErr, report |-> FALSE]

BeginSnapshotRead ==
    /\ op = "idle"
    /\ op' = "SnapshotRead"
    /\ pc' = "Snapshot:Config.Get"
    /\ UNCHANGED <<data, tfstate, stateSets, diags, requests, matched, version,
                   args, query, fields, response, err, ret, log>>

Snapshot_ConfigGet ==
    /\ pc = "Snapshot:Config.Get"
    /\ \E ok \in BOOLEAN, cfg \in SnapshotConfigs :
        IF ok
        THEN /\ data' = cfg
             /\ pc' = "Snapshot:getRestClient"
             /\ UNCHANGED diags
        ELSE /\ diags' = Append(diags, "config read error")
             /\ pc' = "done"
             /\ UNCHANGED data
    /\ log' = Append(log, "Config.Get")
    /\ UNCHANGED <<op, tfstate, stateSets, requests, matched, version, args,
                   query, fields, response, err, ret>>

Snapshot_getRestClient ==
    /\ pc = "Snapshot:getRestClient"
    /\ \E ok \in BOOLEAN :
        IF ok
        THEN /\ pc' = "Snapshot:checkArgs"
             /\ UNCHANGED diags
        ELSE /\ diags' = MakeAndReportError(diags, ClientError).diags
             /\ pc' = "done"
    /\ log' = Append(log, "getRestClient")
    /\ UNCHANGED <<op, data, tfstate, stateSets, requests, matched, version,
                   args, query, fields, response, err, ret>>

Snapshot_CheckArgs ==
    /\ pc = "Snapshot:checkArgs"
    /\ IF data.Name.null \/ data.VolumeUUID.null
       THEN /\ diags' = MakeAndReportError(diags, "error reading snapshot").diags
            /\ pc' = "done"
            /\ UNCHANGED args
       ELSE /\ args' = [name |-> data.Name.v, volumeUUID |-> data.VolumeUUID.v]
            /\ pc' = "Snapshot:GetStorageVolumeSnapshots"
            /\ UNCHANGED diags
    /\ log' = Append(log, "checkArgs")
    /\ UNCHANGED <<op, data, tfstate, stateSets, requests, matched, version,
                   query, fields, response, err, ret>>

Snapshot_GetStorageVolumeSnapshots ==
    /\ pc = "Snapshot:GetStorageVolumeSnapshots"
    /\ \E recs \in SnapshotLists, fails \in BOOLEAN :
        /\ fails => recs = <<>>
        /\ matched' = recs
        /\ LET g == GetStorageVolumeSnapshots(recs, fails)
           IN  /\ ret' = [rec |-> g.rec, err |-> g.err]
               /\ diags' = IF g.report
                           THEN MakeAndReportError(diags, g.err).diags
                           ELSE diags
    /\ requests' = Append(requests,
            Request("GetStorageVolumeSnapshots", "GET",
                    <<"/storage/volumes", args.volumeUUID, "snapshots">>,
                    QuerySet(NewQuery, "name", args.name), <<>>, Nil))
    /\ log' = Append(log, "request")
    /\ pc' = "Snapshot:afterGet"
    /\ UNCHANGED <<op, data, tfstate, stateSets, version, args, query, fields,
                   response, err>>

\* The model after the snapshot's fields are copied into it.
SnapshotModel(d, snapshot) ==
    [d EXCEPT !.Name = TfString(snapshot.Name),
              !.Comment = TfString(snapshot.Comment),
              !.VolumeUUID = TfString(snapshot.VolumeUUID)]

\* After the interface call: stop on an error, report a nil snapshot as
\* "No snapshot found", otherwise set the state.
Snapshot_AfterGet ==
    /\ pc = "Snapshot:afterGet"
    /\ IF ret.err # NilErr
       THEN /\ pc' = "done"
            /\ UNCHANGED <<data, tfstate, stateSets, diags>>
       ELSE IF ret.rec = Nil
       THEN /\ diags' = MakeAndReportError(diags, "No snapshot found").diags
            /\ pc' = "done"
            /\ UNCHANGED <<data, tfstate, stateSets>>
       ELSE /\ data' = SnapshotModel(data, ret.rec[1])
            /\ tfstate' = Some(SnapshotModel(data, ret.rec[1]))
            /\ stateSets' = stateSets + 1
            /\ pc' = "done"
            /\ UNCHANGED diags
    /\ UNCHANGED <<op, requests, matched, version, args, query, fields,
                   response, err, ret, log>>

(***************************************************************************)
(* The specification                                                       *)
(***************************************************************************)
Init ==
    /\ op = "idle"
    /\ pc = "idle"
    /\ data = NoData
    /\ tfstate = Nil
    /\ stateSets = 0
    /\ diags = <<>>
    /\ requests = <<>>
    /\ matched = <<>>
    /\ version = NoVersion
    /\ args = Nil
    /\ query = NewQuery
    /\ fields = <<>>
    /\ response = Nil
    /\ err = NilErr
    /\ ret = [rec |-> Nil, err |-> NilErr]
    /\ log = <<>>

Next ==
    \/ BeginRead
    \/ Read_StateGet
    \/ Read_getRestClient
    \/ Read_GetCluster
    \/ GetIPRoute_Query
    \/ GetIPRoute_Fields
    \/ GetIPRoute_Call
    \/ GetIPRoute_Check
    \/ GetIPRoute_Decode
    \/ Read_AfterGetIPRoute
    \/ BeginCreate
    \/ Create_PlanGet
    \/ Create_getRestClient
    \/ CreateIPRoute_Encode
    \/ CreateIPRoute_Query
    \/ CreateIPRoute_Call
    \/ CreateIPRoute_Decode
    \/ Create_AfterCreateIPRoute
    \/ BeginDelete
    \/ Delete_StateGet
    \/ Delete_getRestClient
    \/ Delete_CheckUUID
    \/ DeleteIPRoute_Call
    \/ Delete_AfterDeleteIPRoute
    \/ BeginSnapshotRead
    \/ Snapshot_ConfigGet
    \/ Snapshot_getRestClient
    \/ Snapshot_CheckArgs
    \/ Snapshot_GetStorageVolumeSnapshots
    \/ Snapshot_AfterGet

Spec == Init /\ [][Next]_vars

(***************************************************************************)
(* Properties                                                              *)
(***************************************************************************)
HasStep(s) == \E i \in DOMAIN log : log[i] = s
RequestsBy(f) == {i \in DOMAIN requests : requests[i].by = f}

\* The interface function has returned to the handler that called it.
GetReturned ==
    op = "Read" /\ HasStep("request") /\ pc \in {"Read:afterGetIPRoute", "done", "panic"}
CreateReturned ==
    op = "Create" /\ HasStep("encode") /\ pc \in {"Create:afterCreateIPRoute", "done"}
DeleteReturned ==
    op = "Delete" /\ HasStep("request") /\ pc \in {"Delete:afterDeleteIPRoute", "done"}
SnapshotReturned ==
    op = "SnapshotRead" /\ HasStep("request") /\ pc \in {"Snapshot:afterGet", "done"}

\* C1: a Get that matches zero records returns absence, not an error: when
\* the zero-or-one read succeeds with no record, GetIPRoute returns a nil
\* record with a nil error and reports no diagnostic, and the snapshot data
\* source's read of a missing snapshot records no error diagnostic.
C1_AbsenceIsNotAnError ==
    /\ (GetReturned /\ response = Nil /\ err = NilErr)
            => (ret.rec = Nil /\ ret.err = NilErr /\ diags = <<>>)
    /\ (SnapshotReturned /\ pc = "done" /\ ret.rec = Nil /\ ret.err = NilErr)
            => diags = <<>>

\* C2: a create whose transport call succeeds with an empty record list ends
\* normally with a nil record and a reported error: it neither returns a
\* record nor aborts by indexing the empty list.
C2_EmptyCreateIsReportedError ==
    (op = "Create" /\ HasStep("decode") /\ err = NilErr /\ response = <<>>)
        => (pc # "panic" /\ ret.rec = Nil /\ ret.err # NilErr /\ Len(diags) = 1)

\* Position of the first occurrence of step s in the log (0 when absent).
FirstStep(s) ==
    IF HasStep(s) THEN CHOOSE i \in DOMAIN log :
                            log[i] = s /\ \A j \in 1..(i - 1) : log[j] # s
    ELSE 0

\* Delete has read a prior state whose UUID is null.
DeleteOfNullUUID ==
    op = "Delete" /\ pc # "Delete:State.Get" /\ tfstate[1].UUID.null
        /\ (diags = <<>> \/ diags[1] # "state read error")

\* C3 as stated: in every Delete whose state UUID is null the outcome is the
\* "UUID is null" validation error, no DELETE request is issued, DeleteIPRoute
\* is not invoked, and no step that touches the transport or the connection
\* profile runs before the identifier check.
C3_ValidationBeforeAnything ==
    DeleteOfNullUUID =>
        /\ RequestsBy("DeleteIPRoute") = {}
        /\ pc \notin {"DeleteIPRoute:call", "Delete:afterDeleteIPRoute"}
        /\ pc = "done" => diags = <<"UUID is null">>
        /\ HasStep("getRestClient") =>
                (HasStep("checkUUID") /\ FirstStep("checkUUID") < FirstStep("getRestClient"))

\* C3 amended: in every Delete whose state UUID is null no request reaches
\* the transport and DeleteIPRoute is never invoked; the client lookup (the
\* connection profile) runs before the identifier check, so the outcome is the
\* "UUID is null" validation error when the lookup succeeds and the lookup's
\* own error, with the identifier never checked, when it fails.
C3_ValidationBeforeTransport ==
    /\ DeleteOfNullUUID =>
        /\ requests = <<>>
        /\ pc \notin {"DeleteIPRoute:call", "Delete:afterDeleteIPRoute"}
        /\ ~HasStep("request")
        /\ HasStep("checkUUID") =>
                (FirstStep("getRestClient") # 0
                    /\ FirstStep("getRestClient") < FirstStep("checkUUID"))
        /\ (pc = "done" /\ HasStep("checkUUID")) => diags = <<"UUID is null">>
        /\ (pc = "done" /\ ~HasStep("checkUUID")) => diags = <<ClientError>>
    /\ (op = "Delete" /\ RequestsBy("DeleteIPRoute") # {}) => ~tfstate[1].UUID.null

C3_Witness ==
    DeleteOfNullUUID /\ pc = "done" /\ HasStep("checkUUID") /\ diags = <<"UUID is null">>

\* C4: when more than one route matches the query (the zero-or-one read
\* reports a failure), GetIPRoute returns a nil record and a non-nil,
\* reported error, none of the matching records reaches the caller, and the
\* handler sets no state.
C4_AmbiguousGetFails ==
    (GetReturned /\ Len(matched) > 1) =>
        /\ ret.rec = Nil
        /\ ret.err # NilErr
        /\ diags = <<ret.err>>
        /\ \A i \in DOMAIN matched : ret.rec # Some(DecodedFields(matched[i]))
        /\ stateSets = 0
        /\ pc # "panic"

C4_Witness ==
    GetReturned /\ pc = "done" /\ Len(matched) = 2 /\ matched[1] # matched[2]
        /\ ret.err # NilErr

\* The projection the version gate must give for a version triple.
ExpectedFields(v) ==
    IF v.Generation = 9 /\ v.Major > 10
    THEN <<"destination", "svm.name", "gateway", "scope", "metric">>
    ELSE <<"destination", "svm.name", "gateway", "scope">>

\* C5: the projection GetIPRoute sends is the base list followed by "metric"
\* exactly once when generation = 9 and major > 10, and exactly the base list
\* otherwise; the minor never matters and no base field is removed.
C5_VersionGatedProjection ==
    /\ \A i \in RequestsBy("GetIPRoute") :
        LET f == requests[i].fields
        IN  /\ f = ExpectedFields(version)
            /\ SubSeq(f, 1, 4) = <<"destination", "svm.name", "gateway", "scope">>
            /\ Cardinality({j \in DOMAIN f : f[j] = "metric"})
                    = (IF version.Generation = 9 /\ version.Major > 10 THEN 1 ELSE 0)
            /\ f = IPRouteFields([version EXCEPT !.Minor = 0])
    /\ (pc = "GetIPRoute:call") => fields = ExpectedFields(args.version)

C5_Witness ==
    \E i \in RequestsBy("GetIPRoute") :
        /\ version.Generation = 9 /\ version.Major = 11
        /\ requests[i].fields[5] = "metric"

\* C6: the query of every GetIPRoute request carries destination.address
\* equal to the requested destination; without an owning virtual server it
\* has scope=cluster and no svm.name filter, with one it has svm.name equal
\* to that name and scope=svm; the scope has exactly one value.
C6_ScopeSelection ==
    /\ \A i \in RequestsBy("GetIPRoute") :
        LET q == requests[i].query
        IN  /\ "destination.address" \in DOMAIN q
            /\ q["destination.address"] = <<args.Destination>>
            /\ "scope" \in DOMAIN q
            /\ Len(q["scope"]) = 1
            /\ (args.svmName = "") =>
                    (q["scope"] = <<"cluster">> /\ "svm.name" \notin DOMAIN q)
            /\ (args.svmName # "") =>
                    (q["scope"] = <<"svm">> /\ "svm.name" \in DOMAIN q
                        /\ q["svm.name"] = <<args.svmName>>)
    /\ (pc \in {"GetIPRoute:query", "GetIPRoute:fields", "GetIPRoute:call"}) =>
            (args.Destination = data.Address.v /\ args.svmName = data.SVMName.v)

C6_Witness ==
    \E i \in RequestsBy("GetIPRoute") :
        /\ args.svmName = ""
        /\ requests[i].query["scope"] = <<"cluster">>
        /\ requests[i].query["destination.address"] = <<"10.0.0.0">>

InterfaceFunctions == {"GetIPRoute", "CreateIPRoute", "DeleteIPRoute"}

\* Body encoding failed in CreateIPRoute: it returned without building a query.
EncodeFailed == op = "Create" /\ HasStep("encode") /\ ~HasStep("query")
                    /\ pc \in {"Create:afterCreateIPRoute", "done"}

\* C7: each of GetIPRoute, CreateIPRoute and DeleteIPRoute hands the
\* transport at most one request (exactly one unless body encoding failed
\* first), issues none after a failure, builds the query and the projection
\* before that request, decodes only after the request returned without
\* error, and always ends in a returned record or a returned error.
C7_SingleRequestTerminal ==
    /\ \A f \in InterfaceFunctions : Cardinality(RequestsBy(f)) <= 1
    /\ GetReturned => Cardinality(RequestsBy("GetIPRoute")) = 1
    /\ DeleteReturned => Cardinality(RequestsBy("DeleteIPRoute")) = 1
    /\ CreateReturned =>
            Cardinality(RequestsBy("CreateIPRoute")) = (IF EncodeFailed THEN 0 ELSE 1)
    /\ \A i \in RequestsBy("GetIPRoute") :
            /\ requests[i].query = IPRouteQuery(args.Destination, args.svmName)
            /\ requests[i].fields = IPRouteFields(args.version)
            /\ FirstStep("query") # 0 /\ FirstStep("query") < FirstStep("fields")
            /\ FirstStep("fields") < FirstStep("request")
    /\ \A i \in RequestsBy("CreateIPRoute") :
            /\ requests[i].query = QueryAdd(NewQuery, "return_records", "true")
            /\ requests[i].body = Some(IPRouteBody(data))
            /\ FirstStep("query") # 0 /\ FirstStep("query") < FirstStep("request")
    /\ (op \in {"Read", "Create"} /\ HasStep("decode")) =>
            (FirstStep("request") # 0 /\ FirstStep("request") < FirstStep("decode")
                /\ err = NilErr)
    /\ (op \in {"Read", "Create", "Delete"} /\ IsDone /\ HasStep("request")) =>
            (pc = "done" /\ ((ret.rec = Nil) = (ret.err # NilErr) \/ op = "Delete"))

\* A failure happened inside the interface function that has returned: the
\* transport call failed, the body could not be encoded, or the response
\* could not be decoded.
TransportFailed == HasStep("request") /\ err # NilErr
DecodeFailed ==
    /\ HasStep("decode")
    /\ \/ op = "Read" /\ response # Nil /\ ~DecodeOk(response[1])
       \/ op = "Create" /\ response # <<>> /\ ~DecodeOk(response[1])
InterfaceFailed == TransportFailed \/ EncodeFailed \/ DecodeFailed

\* C8: every failure inside GetIPRoute, CreateIPRoute or DeleteIPRoute
\* (transport error, body-encoding failure, response-decoding failure) is
\* reported as exactly one diagnostic and returned as a non-nil error with a
\* nil record; a handler that has recorded an error issues no further
\* request to the transport, sets no state and stops.
C8_ErrorsSurfaced ==
    /\ ((GetReturned \/ CreateReturned \/ DeleteReturned) /\ InterfaceFailed) =>
            (ret.err # NilErr /\ ret.rec = Nil /\ diags = <<ret.err>> /\ stateSets = 0)
    /\ \A i \in DOMAIN requests : requests[i].afterErrors = 0
    /\ diags # <<>> =>
            (Len(diags) = 1 /\ stateSets = 0
                /\ pc \in {"Read:afterGetIPRoute", "Create:afterCreateIPRoute",
                           "Delete:afterDeleteIPRoute", "Snapshot:afterGet", "done"})
    /\ (op # "SnapshotRead" /\ ret.err # NilErr) => diags = <<ret.err>>
    /\ (op = "SnapshotRead" /\ ret.err # NilErr) => (diags = <<ret.err>> /\ stateSets = 0)

C8_Witness ==
    /\ GetReturned /\ DecodeFailed /\ pc = "done"
    /\ response[1].uuid.t = "str" /\ ret.rec = Nil /\ diags = <<ret.err>>

\* C9: when the create call succeeds with a non-empty record list,
\* CreateIPRoute returns the decoding of the list's first element whatever
\* the other elements are, and Create stores that record's UUID as the uuid
\* of the state it sets.
C9_FirstRecordAuthoritative ==
    (CreateReturned /\ HasStep("request") /\ err = NilErr /\ Len(matched) > 0) =>
        LET first == matched[1]
        IN  IF DecodeOk(first)
            THEN /\ ret.err = NilErr
                 /\ ret.rec = Some(DecodedFields(first))
                 /\ ret.rec[1].UUID = (IF first.uuid.t = "str" THEN first.uuid.s ELSE "")
                 /\ pc = "done" =>
                        /\ stateSets = 1
                        /\ tfstate # Nil
                        /\ tfstate[1].UUID = TfString(ret.rec[1].UUID)
                        /\ tfstate[1] = data
            ELSE ret.rec = Nil /\ ret.err # NilErr /\ (pc = "done" => tfstate = Nil)

C9_Witness ==
    /\ CreateReturned /\ pc = "done" /\ Len(matched) = 2
    /\ matched[1].uuid = Str("u2") /\ matched[2].uuid = Str("u1")
    /\ tfstate # Nil /\ tfstate[1].UUID = TfString("u2")

\* C10: GetIPRoute never returns a nil record with a nil error: it returns
\* a record and a nil error, or a nil record and an error; so Read, which
\* tests only the error, never dereferences a nil record.
C10_GetNeverNilNil ==
    /\ GetReturned => ((ret.rec = Nil) = (ret.err # NilErr))
    /\ op = "Read" => pc # "panic"

C10_Witness ==
    /\ GetReturned /\ pc = "done" /\ response = Nil /\ err = NilErr
    /\ ret.rec = Nil /\ ret.err # NilErr


\* The handlers that write the Terraform state.
StateWriters == {"Read", "Create", "SnapshotRead"}

\* The handler has ended without reaching State.Set: an earlier step (the
\* state, plan or configuration read, the client lookup, the argument
\* validation, the version fetch or the interface call) did not complete.
EndedBeforeStateSet == op \in StateWriters /\ IsDone /\ stateSets = 0

\* The state the handler started with is still in place.
StateUntouched ==
    /\ op \in {"Create", "SnapshotRead"} => tfstate = Nil
    /\ op = "Read" =>
            (tfstate # Nil /\ (HasStep("getRestClient") => tfstate = Some(data)))

\* C11: in IPRouteResource.Read, IPRouteResource.Create and the snapshot data
\* source's Read, State.Set is reached only when every earlier step completed
\* without error, and whenever an earlier step fails the handler ends with the
\* Terraform state unchanged and at least one error diagnostic recorded.
C11_StateWrittenOnlyOnSuccess ==
    op \in StateWriters =>
        /\ stateSets <= 1
        /\ stateSets = 1 =>
                /\ pc = "done" /\ diags = <<>>
                /\ ret.err = NilErr /\ ret.rec # Nil
                /\ HasStep("getRestClient") /\ HasStep("request")
                /\ \A i \in DOMAIN requests : requests[i].afterErrors = 0
                /\ op = "Read" => HasStep("State.Get") /\ HasStep("GetCluster")
                /\ op = "Create" => HasStep("Plan.Get")
                /\ op = "SnapshotRead" => HasStep("Config.Get") /\ HasStep("checkArgs")
        /\ stateSets = 0 => StateUntouched
        /\ EndedBeforeStateSet => Len(diags) >= 1

====
